---- MODULE Spec2Model ----
(***************************************************************************)
(* The users service (static UserService) over the SQLite users table.     *)
(* The store is the table's rows plus the AUTOINCREMENT sequence; every    *)
(* service call is one synchronous step made of the SQL statements the     *)
(* method issues, in the order it issues them.                             *)
(***************************************************************************)
EXTENDS Integers, Sequences, FiniteSets, TLC

\* ---------------------------------------------------------------- bounds
MaxId == 2
MaxTime == 1

\* ------------------------------------------------------------ input values
Names == {"n1", "n2"}
Emails == {"", "a@x", "b@x"}
Undefined == "undefined"
CallIds == 1..MaxId
PatchNames == Names \cup {Undefined}
PatchEmails == Emails \cup {Undefined}

\* JavaScript truthiness of an optional string: undefined and "" are falsy
Truthy(v) == v # Undefined /\ v # ""

\* ------------------------------------------------------ thrown / returned
NoError == [kind |-> "none", code |-> 0, response |-> ""]
status(code, response) == [kind |-> "status", code |-> code, response |-> response]
NotFound == status(404, "User not found")
EmailExists == status(409, "Email already exists")
UniqueFault ==
  [kind |-> "SQLiteError", code |-> 2067, response |-> "UNIQUE constraint failed: users.email"]

Returns(d, r) == [db |-> d, thrown |-> NoError, ret |-> r]
Throws(d, e) == [db |-> d, thrown |-> e, ret |-> <<>>]

\* ------------------------------------------------------------- the store
Entity(id, name, email, c, u) ==
  [id |-> id, name |-> name, email |-> email, created_at |-> c, updated_at |-> u]

EmptyDb == [users |-> {}, seq |-> 0]

\* query.get(): the first row of the result, or null (the empty sequence)
First(rows) == IF rows = {} THEN <<>> ELSE <<CHOOSE r \in rows : TRUE>>

SelectById(d, id) == {r \in d.users : r.id = id}
SelectByEmail(d, email) == {r \in d.users : r.email = email}

\* email TEXT NOT NULL UNIQUE: another row already holds the email
UniqueViolation_Off(d, row) == FALSE
UniqueViolation(d, row) ==
  \E r \in d.users : r.id # row.id /\ r.email = row.email

\* INSERT INTO users (name, email) VALUES (?, ?) RETURNING *
\* id from AUTOINCREMENT (sqlite_sequence), both timestamps CURRENT_TIMESTAMP
Insert_ReturnsSeq(d, t, name, email) ==
  LET row == Entity(d.seq + 1, name, email, t, t) IN
  IF UniqueViolation(d, row)
  THEN Throws(d, UniqueFault)
  ELSE Returns([users |-> d.users \cup {row}, seq |-> d.seq + 1],
               <<[row EXCEPT !.id = d.seq]>>)
Insert_Swapped(d, t, name, email) ==
  LET row == Entity(d.seq + 1, email, name, t, t) IN
  IF UniqueViolation(d, row)
  THEN Throws(d, UniqueFault)
  ELSE Returns([users |-> d.users \cup {row}, seq |-> d.seq + 1], <<row>>)
Insert_MaxRowid(d, t, name, email) ==
  LET ids == {r.id : r \in d.users} \cup {0}
      top == CHOOSE i \in ids : \A j \in ids : j <= i
      row == Entity(top + 1, name, email, t, t)
  IN IF UniqueViolation(d, row)
     THEN Throws(d, UniqueFault)
     ELSE Returns([users |-> d.users \cup {row},
                   seq |-> IF top + 1 > d.seq THEN top + 1 ELSE d.seq], <<row>>)
Insert(d, t, name, email) ==
  LET row == Entity(d.seq + 1, name, email, t, t) IN
  IF UniqueViolation(d, row)
  THEN Throws(d, UniqueFault)
  ELSE Returns([users |-> d.users \cup {row}, seq |-> d.seq + 1], <<row>>)

\* AFTER UPDATE trigger update_user_timestamp:
\* UPDATE users SET updated_at = CURRENT_TIMESTAMP WHERE id = NEW.id
Trigger_NoWhere(users, id, t) == {[r EXCEPT !.updated_at = t] : r \in users}
Trigger_WrongColumn(users, id, t) ==
  {IF r.id = id THEN [r EXCEPT !.created_at = t] ELSE r : r \in users}
Trigger(users, id, t) ==
  {IF r.id = id THEN [r EXCEPT !.updated_at = t] ELSE r : r \in users}

\* UPDATE users SET <sets> WHERE id = ? RETURNING *
\* sets maps each column of the SET list to its bound value.  RETURNING
\* shows the row as the statement wrote it, before the AFTER trigger ran;
\* no matching row: nothing is written and nothing is returned.
Update_ReturnPersisted(d, t, id, sets) ==
  LET old == SelectById(d, id) IN
  IF old = {} THEN Returns(d, <<>>)
  ELSE LET o == CHOOSE r \in old : TRUE
           new == [c \in DOMAIN o |-> IF c \in DOMAIN sets THEN sets[c] ELSE o[c]]
           written == Trigger((d.users \ {o}) \cup {new}, id, t)
       IN IF UniqueViolation(d, new)
          THEN Throws(d, UniqueFault)
          ELSE Returns([d EXCEPT !.users = written], First(SelectById([d EXCEPT !.users = written], id)))
Update(d, t, id, sets) ==
  LET old == SelectById(d, id) IN
  IF old = {} THEN Returns(d, <<>>)
  ELSE LET o == CHOOSE r \in old : TRUE
           new == [c \in DOMAIN o |-> IF c \in DOMAIN sets THEN sets[c] ELSE o[c]]
       IN IF UniqueViolation(d, new)
          THEN Throws(d, UniqueFault)
          ELSE Returns([d EXCEPT !.users = Trigger((d.users \ {o}) \cup {new}, id, t)],
                       <<new>>)

\* DELETE FROM users WHERE id = ?
Delete_All(d, id) == [d EXCEPT !.users = {}]
Delete(d, id) == [d EXCEPT !.users = {r \in d.users : r.id # id}]

\* ------------------------------------------------------------ the service
getUserById_Status400(d, id) ==
  LET user == First(SelectById(d, id)) IN
  IF user = <<>> THEN Throws(d, status(400, "User not found")) ELSE Returns(d, user)
getUserById(d, id) ==
  LET user == First(SelectById(d, id)) IN
  IF user = <<>> THEN Throws(d, NotFound) ELSE Returns(d, user)

getUserByEmail_Throws(d, email) ==
  LET user == First(SelectByEmail(d, email)) IN
  IF user = <<>> THEN Throws(d, NotFound) ELSE Returns(d, user)
getUserByEmail(d, email) == Returns(d, First(SelectByEmail(d, email)))

createUser_NoCheck(d, t, data) == Insert(d, t, data.name, data.email)
createUser(d, t, data) ==
  LET existingUser == getUserByEmail(d, data.email).ret IN
  IF existingUser # <<>> THEN Throws(d, EmailExists)
  ELSE Insert(d, t, data.name, data.email)

deleteUser_NoCheck(d, id) == Returns(Delete(d, id), <<>>)
deleteUser_DeleteFirst(d, id) ==
  LET found == getUserById(Delete(d, id), id) IN
  IF found.thrown # NoError THEN Throws(Delete(d, id), found.thrown)
  ELSE Returns(Delete(d, id), <<>>)
deleteUser(d, id) ==
  LET found == getUserById(d, id) IN
  IF found.thrown # NoError THEN found
  ELSE Returns(Delete(d, id), <<>>)

\* ORDER BY created_at DESC: every ordering of the rows that is descending
\* in created_at (SQL leaves the order of ties open)
OrderedByCreatedDesc_Asc(users) ==
  LET n == Cardinality(users) IN
  {s \in [1..n -> users] :
     /\ \A i, j \in 1..n : i # j => s[i] # s[j]
     /\ \A i, j \in 1..n : i < j => s[i].created_at <= s[j].created_at}
OrderedByCreatedDesc(users) ==
  LET n == Cardinality(users) IN
  {s \in [1..n -> users] :
     /\ \A i, j \in 1..n : i # j => s[i] # s[j]
     /\ \A i, j \in 1..n : i < j => s[i].created_at >= s[j].created_at}

\* data.email && data.email !== user.email, then the lookup by email
emailTaken_NoSelfCheck(d, user, data) ==
  /\ Truthy(data.email)
  /\ getUserByEmail(d, data.email).ret # <<>>
emailTaken(d, user, data) ==
  /\ Truthy(data.email)
  /\ data.email # user.email
  /\ getUserByEmail(d, data.email).ret # <<>>

\* the updates/values arrays: one entry per field that is not undefined
updates(data) ==
  [c \in {c \in {"name", "email"} : data[c] # Undefined} |-> data[c]]

updateUser_ConflictFirst(d, t, id, data) ==
  IF Truthy(data.email) /\ \E r \in SelectByEmail(d, data.email) : r.id # id
  THEN Throws(d, EmailExists)
  ELSE LET found == getUserById(d, id) IN
       IF found.thrown # NoError THEN found
       ELSE IF DOMAIN updates(data) = {} THEN Returns(d, found.ret)
       ELSE Update(d, t, id, updates(data))
updateUser_AlwaysWrite(d, t, id, data) ==
  LET found == getUserById(d, id) IN
  IF found.thrown # NoError THEN found
  ELSE IF emailTaken(d, found.ret[1], data) THEN Throws(d, EmailExists)
  ELSE Update(d, t, id, updates(data))
updateUser_Downgrade(d, t, id, data) ==
  LET found == getUserById(d, id) IN
  IF found.thrown # NoError THEN found
  ELSE IF emailTaken(d, found.ret[1], data) THEN Throws(d, EmailExists)
  ELSE IF DOMAIN updates(data) = {} THEN Returns(d, found.ret)
  ELSE LET w == Update(d, t, id, updates(data)) IN
       IF w.thrown # NoError THEN Throws(d, EmailExists) ELSE w
updateUser(d, t, id, data) ==
  LET found == getUserById(d, id) IN
  IF found.thrown # NoError THEN found
  ELSE IF emailTaken(d, found.ret[1], data) THEN Throws(d, EmailExists)
  ELSE IF DOMAIN updates(data) = {} THEN Returns(d, found.ret)
  ELSE Update(d, t, id, updates(data))

\* --------------------------------- the instance-based service (db injected)
\* it throws plain Errors carrying only a message
Error(message) == [kind |-> "Error", code |-> 0, response |-> message]

iGetUserById(d, id) == Returns(d, First(SelectById(d, id)))

iGetUserByEmail(d, email) == Returns(d, First(SelectByEmail(d, email)))

iCreateUser_NoCheck(d, t, data) == Insert(d, t, data.name, data.email)
iCreateUser(d, t, data) ==
  IF iGetUserByEmail(d, data.email).ret # <<>>
  THEN Throws(d, Error("Email already exists"))
  ELSE Insert(d, t, data.name, data.email)

iUpdateUser(d, t, id, data) ==
  LET user == iGetUserById(d, id).ret IN
  IF user = <<>> THEN Throws(d, Error("User not found"))
  ELSE IF /\ Truthy(data.email)
          /\ data.email # user[1].email
          /\ iGetUserByEmail(d, data.email).ret # <<>>
       THEN Throws(d, Error("Email already exists"))
  ELSE IF DOMAIN updates(data) = {} THEN Returns(d, user)
  ELSE Update(d, t, id, updates(data))

\* returns true
iDeleteUser(d, id) ==
  LET user == iGetUserById(d, id).ret IN
  IF user = <<>> THEN Throws(d, Error("User not found"))
  ELSE Returns(Delete(d, id), <<>>)

\* ------------------------------------------------------- the routing layer
\* request bodies: a field may be missing, too short, too long or malformed
LongName ==
  "nnnnnnnnnnnnnnnnnnnnnnnnnnnnnnnnnnnnnnnnnnnnnnnnnnnnnnnnnnnnnnnnnnnnnnnnnnnnnnnnnnnnnnnnnnnnnnnnnnnnn"
BodyNames == {Undefined, "", "n1", LongName}
BodyEmails == {Undefined, "invalid-email", "a@x", "b@x"}

\* format: "email": the well-formed addresses among the inputs
FormatEmail(v) == v \in {"a@x", "b@x"}

\* t.Object({ name: String 1..100, email: String format email, max 255 })
UserModel_create(body) ==
  /\ body.name # Undefined
  /\ Len(body.name) >= 1
  /\ Len(body.name) <= 100
  /\ body.email # Undefined
  /\ FormatEmail(body.email)
  /\ Len(body.email) <= 255

\* what the framework and the handlers hand to onError
ValidationError ==
  [kind |-> "ValidationError", code |-> 422, response |-> "Expected string"]
NotFoundError == [kind |-> "NotFoundError", code |-> 404, response |-> "NOT_FOUND"]
ParseError == [kind |-> "ParseError", code |-> 400, response |-> "Bad Request"]
ThrownString == [kind |-> "string", code |-> 0, response |-> "boom"]
OnErrorInputs ==
  {<<"VALIDATION", ValidationError>>, <<"NOT_FOUND", NotFoundError>>,
   <<"PARSE", ParseError>>}
  \cup ({"UNKNOWN"} \X {Error("User not found"), Error("Email already exists"),
                         UniqueFault, ThrownString})

\* error instanceof Error (SQLiteError and the framework's errors extend Error)
instanceofError(error) ==
  error.kind \in {"Error", "SQLiteError", "ValidationError", "NotFoundError",
                  "ParseError"}

\* the words of a message, and String.prototype.includes on them
Words(message) ==
  CASE message = "User not found" -> <<"User", "not", "found">>
    [] message = "Email already exists" -> <<"Email", "already", "exists">>
    [] message = "UNIQUE constraint failed: users.email" ->
         <<"UNIQUE", "constraint", "failed:", "users.email">>
    [] OTHER -> <<message>>
includes(message, words) ==
  \E i \in 1..Len(Words(message)) :
    /\ i + Len(words) - 1 <= Len(Words(message))
    /\ SubSeq(Words(message), i, i + Len(words) - 1) = words

Response(st, error, message) ==
  [status |-> st, error |-> error, message |-> message]

errorMiddleware(code, error) ==
  IF code = "VALIDATION"
  THEN Response(400, "Validation Error", "Invalid request data")
  ELSE IF code = "NOT_FOUND"
  THEN Response(404, "Not Found", "The requested resource was not found")
  ELSE IF code = "PARSE"
  THEN Response(400, "Parse Error", "Invalid request format")
  ELSE IF instanceofError(error)
  THEN IF includes(error.response, <<"not", "found">>)
       THEN Response(404, "Not Found", error.response)
       ELSE IF includes(error.response, <<"already", "exists">>)
       THEN Response(409, "Conflict", error.response)
       ELSE Response(400, "Bad Request", error.response)
  ELSE Response(500, "Internal Server Error", "An unexpected error occurred")

errorPlugin(code, error) ==
  IF code = "VALIDATION"
  THEN Response(422, "Validation Error", error.response)
  ELSE IF code = "NOT_FOUND"
  THEN Response(404, "Not Found", "Resource not found")
  ELSE IF code = "PARSE"
  THEN Response(400, "Parse Error", "Invalid request format")
  ELSE IF instanceofError(error)
  THEN IF includes(error.response, <<"not", "found">>)
       THEN Response(404, "Not Found", error.response)
       ELSE IF includes(error.response, <<"already", "exists">>)
       THEN Response(409, "Conflict", error.response)
       ELSE Response(400, "Bad Request", error.response)
  ELSE Response(500, "Internal Server Error", "An unexpected error occurred")

\* the two application set-ups: the controller-based one registers
\* errorMiddleware, the static-service one registers errorPlugin
Apps == {"errorMiddleware", "errorPlugin"}
onError(app, code, error) ==
  IF app = "errorMiddleware" THEN errorMiddleware(code, error)
  ELSE errorPlugin(code, error)

\* ------------------------------------------------------- the state machine
VARIABLES
  db,       \* the store: users table rows and the AUTOINCREMENT sequence
  now,      \* CURRENT_TIMESTAMP of the store
  pre,      \* the store as it was when the last call started
  last,     \* the last service call: operation, arguments, time, outcome
  deleted,  \* ids whose deleteUser has succeeded
  issued,   \* ids that successful createUser calls have returned
  http,     \* the routing layer's answer to the last request
  procs     \* the calls in progress in concurrently running server processes

vars == <<db, now, pre, last, deleted, issued, http, procs>>

Call(op, id, name, email, t, r) ==
  [op |-> op, id |-> id, name |-> name, email |-> email, at |-> t,
   thrown |-> r.thrown, ret |-> r.ret]

\* no call is in progress: the previous one has returned to its caller
NoCall == Call("none", 0, Undefined, Undefined, 0, Returns(EmptyDb, <<>>))
Idle == last = NoCall

\* no request has been answered
NoHttp ==
  [app |-> "none", code |-> "none", served |-> FALSE,
   resp |-> Response(0, "", "")]

\* the server processes sharing the database file, and one with no call
Procs == {"p1", "p2"}
NoProc ==
  [op |-> "none", id |-> 0, name |-> Undefined, email |-> Undefined,
   pc |-> "idle", user |-> <<>>, thrown |-> NoError, ret |-> <<>>]

Init ==
  /\ db = EmptyDb
  /\ now = 0
  /\ pre = EmptyDb
  /\ last = NoCall
  /\ deleted = {}
  /\ issued = {}
  /\ http = NoHttp
  /\ procs = [p \in Procs |-> NoProc]

\* a call runs to completion, synchronously, before the next one starts
Finish(op, id, name, email, r) ==
  /\ Idle
  /\ db' = r.db
  /\ pre' = db
  /\ last' = Call(op, id, name, email, now, r)
  /\ UNCHANGED <<now, http, procs>>

GetAllUsers ==
  \E s \in OrderedByCreatedDesc(db.users) :
    /\ Finish("getAllUsers", 0, Undefined, Undefined, Returns(db, s))
    /\ UNCHANGED <<deleted, issued>>

GetUserById(id) ==
  /\ Finish("getUserById", id, Undefined, Undefined, getUserById(db, id))
  /\ UNCHANGED <<deleted, issued>>

GetUserByEmail(email) ==
  /\ Finish("getUserByEmail", 0, Undefined, email, getUserByEmail(db, email))
  /\ UNCHANGED <<deleted, issued>>

CreateUser(name, email) ==
  LET r == createUser(db, now, [name |-> name, email |-> email]) IN
  /\ r.db.seq <= MaxId
  /\ Finish("createUser", 0, name, email, r)
  /\ issued' = IF r.thrown = NoError THEN issued \cup {r.ret[1].id} ELSE issued
  /\ UNCHANGED deleted

UpdateUser(id, name, email) ==
  /\ Finish("updateUser", id, name, email,
            updateUser(db, now, id, [name |-> name, email |-> email]))
  /\ UNCHANGED <<deleted, issued>>

DeleteUser(id) ==
  LET r == deleteUser(db, id) IN
  /\ Finish("deleteUser", id, Undefined, Undefined, r)
  /\ deleted' = IF r.thrown = NoError THEN deleted \cup {id} ELSE deleted
  /\ UNCHANGED issued

\* the outcome has been handed to the caller
Return ==
  /\ ~Idle
  /\ last' = NoCall
  /\ pre' = db
  /\ http' = NoHttp
  /\ UNCHANGED <<db, now, deleted, issued, procs>>

\* time passes between calls
Tick ==
  /\ Idle
  /\ now < MaxTime
  /\ now' = now + 1
  /\ UNCHANGED <<db, pre, last, deleted, issued, http, procs>>

Next ==
  \/ GetAllUsers
  \/ \E id \in CallIds : GetUserById(id)
  \/ \E email \in Emails : GetUserByEmail(email)
  \/ \E name \in Names, email \in Emails : CreateUser(name, email)
  \/ \E id \in CallIds, name \in PatchNames, email \in PatchEmails :
       UpdateUser(id, name, email)
  \/ \E id \in CallIds : DeleteUser(id)
  \/ Return
  \/ Tick

Spec == Init /\ [][Next]_vars

\* ------------------------------------------ requests through the routing layer
\* the answer to a request, and what the service did for it
Answer(app, code, served, name, email, r, resp) ==
  /\ Idle
  /\ db' = r.db
  /\ pre' = db
  /\ last' = Call("POST /users", 0, name, email, now, r)
  /\ http' = [app |-> app, code |-> code, served |-> served, resp |-> resp]
  /\ UNCHANGED <<now, deleted, procs>>

\* POST /users: the body is validated against UserModel.create before the
\* handler runs; the controller-based set-up calls the instance service, whose
\* Errors go to onError; the other calls the static service, whose
\* status(code, text) is the response
PostUsers(app, name, email) ==
  LET body == [name |-> name, email |-> email] IN
  IF ~UserModel_create(body)
  THEN /\ Answer(app, "VALIDATION", FALSE, name, email, Returns(db, <<>>),
                 onError(app, "VALIDATION", ValidationError))
       /\ UNCHANGED issued
  ELSE LET r == IF app = "errorMiddleware" THEN iCreateUser(db, now, body)
                ELSE createUser(db, now, body)
           resp == IF r.thrown = NoError THEN Response(200, "", "")
                   ELSE IF r.thrown.kind = "status"
                   THEN Response(r.thrown.code, "", r.thrown.response)
                   ELSE onError(app, "UNKNOWN", r.thrown)
       IN /\ r.db.seq <= MaxId
          /\ Answer(app, "UNKNOWN", TRUE, name, email, r, resp)
          /\ issued' = IF r.thrown = NoError THEN issued \cup {r.ret[1].id}
                       ELSE issued

\* a failure reaches the registered error handler
HandleError(app, code, error) ==
  /\ Idle
  /\ last' = Call("onError", 0, Undefined, Undefined, now, Throws(db, error))
  /\ http' = [app |-> app, code |-> code, served |-> FALSE,
              resp |-> onError(app, code, error)]
  /\ pre' = db
  /\ UNCHANGED <<db, now, deleted, issued, procs>>

NextHttp ==
  \/ \E app \in Apps, name \in BodyNames, email \in BodyEmails :
       PostUsers(app, name, email)
  \/ \E app \in Apps, in \in OnErrorInputs : HandleError(app, in[1], in[2])
  \/ Return
  \/ Tick

SpecHttp == Init /\ [][NextHttp]_vars

\* ------------------------------------------------- calls running concurrently
\* Server processes share the database file. Each statement is atomic in the
\* store; a service call is a sequence of statements with no transaction
\* around them, so statements of different processes interleave.

\* the stores a run of createUser calls leaves behind
RECURSIVE Seeded(_)
Seeded(k) ==
  IF k = 0 THEN {EmptyDb}
  ELSE {createUser(d, 0, [name |-> "n1", email |-> e]).db :
          d \in Seeded(k - 1), e \in Emails}
SeedDbs == UNION {Seeded(k) : k \in 0..MaxId}

InitConc ==
  /\ db \in SeedDbs
  /\ now = MaxTime
  /\ pre = db
  /\ last = NoCall
  /\ deleted = {}
  /\ issued = 1..db.seq
  /\ http = NoHttp
  /\ procs = [p \in Procs |-> NoProc]

\* process p moves on; the store becomes d
Step(p, d, proc) ==
  /\ procs' = [procs EXCEPT ![p] = proc]
  /\ db' = d
  /\ UNCHANGED <<now, pre, last, deleted, issued, http>>

Done(proc, r) == [proc EXCEPT !.pc = "done", !.thrown = r.thrown, !.ret = r.ret]

\* a request arrives at an idle process
Start(p, op, id, name, email) ==
  /\ procs[p].pc = "idle"
  /\ Step(p, db, [NoProc EXCEPT !.op = op, !.id = id, !.name = name,
                                !.email = email, !.pc = "find"])

\* createUser: SELECT by email, throw 409 if a row came back
CreateFind(p) ==
  LET proc == procs[p]
      existing == getUserByEmail(db, proc.email).ret
  IN /\ proc.op = "createUser" /\ proc.pc = "find"
     /\ Step(p, db, IF existing # <<>> THEN Done(proc, Throws(db, EmailExists))
                    ELSE [proc EXCEPT !.pc = "write"])

\* createUser: INSERT ... RETURNING *
CreateWrite(p) ==
  LET proc == procs[p]
      r == Insert(db, now, proc.name, proc.email)
  IN /\ proc.op = "createUser" /\ proc.pc = "write"
     /\ Step(p, r.db, Done(proc, r))

\* updateUser: const user = this.getUserById(db, id)
UpdateFind(p) ==
  LET proc == procs[p]
      found == getUserById(db, proc.id)
  IN /\ proc.op = "updateUser" /\ proc.pc = "find"
     /\ Step(p, db, IF found.thrown # NoError THEN Done(proc, found)
                    ELSE [proc EXCEPT !.pc = "check", !.user = found.ret])

\* updateUser: the uniqueness check against the user read before
UpdateCheck(p) ==
  LET proc == procs[p]
      data == [name |-> proc.name, email |-> proc.email]
  IN /\ proc.op = "updateUser" /\ proc.pc = "check"
     /\ Step(p, db, IF emailTaken(db, proc.user[1], data)
                    THEN Done(proc, Throws(db, EmailExists))
                    ELSE [proc EXCEPT !.pc = "write"])

\* updateUser: return the user read before, or UPDATE the supplied columns
writeUpdates_WholeRow(d, t, id, data, user) ==
  Update(d, t, id,
         [name |-> IF data.name # Undefined THEN data.name ELSE user[1].name,
          email |-> IF data.email # Undefined THEN data.email
                    ELSE user[1].email])
writeUpdates(d, t, id, data, user) ==
  IF DOMAIN updates(data) = {} THEN Returns(d, user)
  ELSE Update(d, t, id, updates(data))

UpdateWrite(p) ==
  LET proc == procs[p]
      data == [name |-> proc.name, email |-> proc.email]
      r == writeUpdates(db, now, proc.id, data, proc.user)
  IN /\ proc.op = "updateUser" /\ proc.pc = "write"
     /\ Step(p, r.db, Done(proc, r))

\* deleteUser: this.getUserById(db, id)
DeleteFind(p) ==
  LET proc == procs[p]
      found == getUserById(db, proc.id)
  IN /\ proc.op = "deleteUser" /\ proc.pc = "find"
     /\ Step(p, db, IF found.thrown # NoError THEN Done(proc, found)
                    ELSE [proc EXCEPT !.pc = "write"])

\* deleteUser: DELETE FROM users WHERE id = ?
DeleteWrite(p) ==
  LET proc == procs[p] IN
  /\ proc.op = "deleteUser" /\ proc.pc = "write"
  /\ Step(p, Delete(db, proc.id), Done(proc, Returns(db, <<>>)))

NextConc ==
  \E p \in Procs :
    \/ \E name \in Names, email \in Emails :
         Start(p, "createUser", 0, name, email)
    \/ \E id \in CallIds, name \in PatchNames, email \in PatchEmails :
         Start(p, "updateUser", id, name, email)
    \/ \E id \in CallIds : Start(p, "deleteUser", id, Undefined, Undefined)
    \/ CreateFind(p)
    \/ CreateWrite(p)
    \/ UpdateFind(p)
    \/ UpdateCheck(p)
    \/ UpdateWrite(p)
    \/ DeleteFind(p)
    \/ DeleteWrite(p)

SpecConc == InitConc /\ [][NextConc]_vars

TypeOK ==
  /\ db.seq \in 0..MaxId
  /\ now \in 0..MaxTime
  /\ \A r \in db.users : r.id \in 1..db.seq
  /\ \A r1, r2 \in db.users : r1.id = r2.id => r1 = r2

\* ------------------------------------------------------------- properties
\* the record with the given id before / after the last call
Before(id) == SelectById(pre, id)
After(id) == SelectById(db, id)
Others(d, id) == {r \in d.users : r.id # id}

\* C1: after any sequence of create, update and delete calls no two present
\* records hold the same email.
C1_EmailsDistinct ==
  \A r1, r2 \in db.users : r1.email = r2.email => r1 = r2

C1_Witness ==
  /\ last.op = "updateUser"
  /\ last.thrown = NoError
  /\ last.email # Undefined
  /\ Cardinality(db.users) >= 2
  /\ \E u \in Before(last.id) : u.email # last.email

\* C2: createUser with an email that a present record already holds fails
\* with 409 "Email already exists", whatever the name.
C2_CreateDuplicateConflicts ==
  (last.op = "createUser" /\ SelectByEmail(pre, last.email) # {})
    => /\ last.thrown = status(409, "Email already exists")
       /\ db = pre

C2_Witness ==
  /\ last.op = "createUser"
  /\ last.thrown.code = 409
  /\ \E r \in pre.users : r.email = last.email /\ r.name # last.name

\* C3: getUserById returns the present record with that id, and fails with
\* 404 "User not found" when no present record has it (empty store included).
C3_GetById ==
  last.op = "getUserById"
    => IF Before(last.id) # {}
       THEN /\ last.thrown = NoError
            /\ Len(last.ret) = 1
            /\ last.ret[1] \in pre.users
            /\ last.ret[1].id = last.id
       ELSE /\ last.thrown = status(404, "User not found")
            /\ last.ret = <<>>

C3_Witness ==
  /\ last.op = "getUserById"
  /\ pre.users = {}
  /\ last.thrown.code = 404

\* C4: once deleteUser(id) has succeeded, every later getUserById(id) and
\* deleteUser(id) fails with 404, and so does either call on an id that was
\* never created.
C4_DeleteTerminal ==
  [][(/\ now' = now
      /\ last'.op \in {"getUserById", "deleteUser"}
      /\ (last'.id \in deleted \/ last'.id > db.seq))
       => last'.thrown = status(404, "User not found")]_vars

C4_Witness ==
  /\ last.op = "deleteUser"
  /\ last.id \in deleted
  /\ last.thrown.code = 404
  /\ db.users # {}

\* C5: updateUser on an id with no present record fails with 404 for every
\* patch, also when the patch's email is owned by a present record.
C5_UpdateAbsentNotFound ==
  (last.op = "updateUser" /\ Before(last.id) = {})
    => /\ last.thrown = status(404, "User not found")
       /\ db = pre

C5_Witness ==
  /\ last.op = "updateUser"
  /\ Before(last.id) = {}
  /\ SelectByEmail(pre, last.email) # {}
  /\ last.thrown.code = 404

\* C6: updateUser on a present record with a supplied email that differs
\* from the record's own and is owned by another present record fails with
\* 409 "Email already exists", for every supplied email value.
C6_UpdateTakenEmailConflicts ==
  (/\ last.op = "updateUser"
   /\ last.email # Undefined
   /\ \E u \in Before(last.id) : u.email # last.email
   /\ \E o \in Others(pre, last.id) : o.email = last.email)
    => last.thrown = status(409, "Email already exists")

\* C7: updateUser with the record's own current email succeeds and never
\* fails with a conflict.
C7_SelfEmailSucceeds ==
  (last.op = "updateUser" /\ \E u \in Before(last.id) : u.email = last.email)
    => /\ last.thrown = NoError
       /\ Len(last.ret) = 1
       /\ last.ret[1].email = last.email

C7_Witness ==
  /\ last.op = "updateUser"
  /\ last.name = Undefined
  /\ Truthy(last.email)
  /\ \E u \in Before(last.id) : u.email = last.email
  /\ last.thrown = NoError

\* C8: updateUser with an empty patch on a present record returns the
\* current record and writes nothing: the store, updated_at included, is as
\* before the call.
C8_EmptyPatchNoWrite ==
  (/\ last.op = "updateUser"
   /\ last.name = Undefined
   /\ last.email = Undefined
   /\ Before(last.id) # {})
    => /\ last.thrown = NoError
       /\ last.ret = First(Before(last.id))
       /\ db = pre

C8_Witness ==
  /\ last.op = "updateUser"
  /\ last.name = Undefined
  /\ last.email = Undefined
  /\ \E u \in Before(last.id) : u.updated_at < last.at
  /\ last.thrown = NoError

\* a non-empty patch whose supplied values all equal the record's values
SameValuesPatch(u) ==
  /\ last.op = "updateUser"
  /\ last.name # Undefined \/ last.email # Undefined
  /\ last.name \in {Undefined, u.name}
  /\ last.email \in {Undefined, u.email}

\* C9 (as claimed): updateUser with a non-empty patch whose values equal the
\* current values returns a record equal to the pre-call record, and
\* updated_at, returned and persisted, is unchanged.
C9_SameValuesKeepUpdatedAt ==
  \A u \in Before(last.id) :
    SameValuesPatch(u)
      => /\ last.ret = <<u>>
         /\ \A r \in After(last.id) : r.updated_at = u.updated_at

\* C9 (amended): such a call succeeds and returns a record equal to the
\* pre-call record, and the persisted id, name, email and created_at are
\* unchanged; the UPDATE is issued all the same, so the persisted updated_at
\* is the store's time at the call.
C9_SameValuesWriteStamps ==
  \A u \in Before(last.id) :
    SameValuesPatch(u)
      => /\ last.thrown = NoError
         /\ last.ret = <<u>>
         /\ After(last.id) = {[u EXCEPT !.updated_at = last.at]}

C9_Witness ==
  \E u \in Before(last.id) :
    /\ SameValuesPatch(u)
    /\ u.updated_at < last.at
    /\ \E r \in After(last.id) : r.updated_at > u.updated_at

\* C10: a successful updateUser changes only the supplied fields (and
\* updated_at) of the record with that id: its id, created_at and unsupplied
\* fields keep their values, and every other record is unchanged.
C10_UpdateFrame ==
  (last.op = "updateUser" /\ last.thrown = NoError)
    => /\ Others(db, last.id) = Others(pre, last.id)
       /\ db.seq = pre.seq
       /\ \A u \in Before(last.id) :
            /\ Cardinality(After(last.id)) = 1
            /\ \A r \in After(last.id) :
                 /\ r.id = u.id
                 /\ r.created_at = u.created_at
                 /\ last.name = Undefined => r.name = u.name
                 /\ last.email = Undefined => r.email = u.email
            /\ Len(last.ret) = 1
            /\ last.ret[1].id = u.id
            /\ last.ret[1].created_at = u.created_at
            /\ last.name = Undefined => last.ret[1].name = u.name
            /\ last.email = Undefined => last.ret[1].email = u.email

C10_Witness ==
  /\ last.op = "updateUser"
  /\ last.thrown = NoError
  /\ last.name # Undefined
  /\ last.email = Undefined
  /\ \E u \in Before(last.id) : u.name # last.name /\ u.updated_at < last.at
  /\ \E o \in Others(pre, last.id) : o.updated_at < last.at

\* a successful updateUser that changes at least one field of the record u
ChangingUpdate(u) ==
  /\ last.op = "updateUser"
  /\ last.thrown = NoError
  /\ last.name \notin {Undefined, u.name} \/ last.email \notin {Undefined, u.email}

C12_UpdateReturnsPersisted ==
  (/\ last.op = "updateUser"
   /\ last.thrown = NoError
   /\ last.name # Undefined \/ last.email # Undefined)
    => getUserById(db, last.id) = Returns(db, last.ret)

\* C13: the record returned by a successful create, fetched right after with
\* getUserById(returned.id), is field-for-field identical.
C13_CreateRoundTrip ==
  (last.op = "createUser" /\ last.thrown = NoError)
    => /\ Len(last.ret) = 1
       /\ getUserById(db, last.ret[1].id) = Returns(db, last.ret)

C13_Witness ==
  /\ last.op = "createUser"
  /\ last.thrown = NoError
  /\ pre.users # {}
  /\ last.ret[1] \in db.users

\* C14: a successful create returns the supplied name and email, an id the
\* store assigned (held by no other record) and created_at = updated_at; the
\* first create on a fresh, empty store returns id 1.
C14_CreateResult ==
  (last.op = "createUser" /\ last.thrown = NoError)
    => /\ Len(last.ret) = 1
       /\ last.ret[1].name = last.name
       /\ last.ret[1].email = last.email
       /\ last.ret[1].created_at = last.ret[1].updated_at
       /\ last.ret[1].id >= 1
       /\ \A r \in pre.users : r.id # last.ret[1].id
       /\ pre = EmptyDb => last.ret[1].id = 1

C14_Witness ==
  /\ last.op = "createUser"
  /\ last.thrown = NoError
  /\ pre = EmptyDb
  /\ last.ret[1].id = 1
  /\ last.ret[1].name = last.name

\* C15: an id is never reused: every successful create returns an id that no
\* earlier create has returned, ids of deleted records included.
C15_IdNeverReused ==
  [][(/\ now' = now
      /\ last'.op = "createUser"
      /\ last'.thrown = NoError)
       => last'.ret[1].id \notin issued]_vars

C15_Witness ==
  /\ last.op = "createUser"
  /\ last.thrown = NoError
  /\ last.ret[1].id - 1 \in deleted
  /\ \A r \in pre.users : r.id < last.ret[1].id - 1

\* C16: every present record has updated_at >= created_at.
C16_UpdatedNotBeforeCreated ==
  \A r \in db.users : r.updated_at >= r.created_at

C16_Witness ==
  /\ last.op = "updateUser"
  /\ last.thrown = NoError
  /\ \E r \in After(last.id) : r.created_at > 0 /\ r.updated_at >= r.created_at

\* C17: getAllUsers returns exactly the present records, each once (the
\* empty list on an empty store), in descending order of created_at.
C17_ListAllOrdered ==
  last.op = "getAllUsers"
    => /\ last.thrown = NoError
       /\ Len(last.ret) = Cardinality(pre.users)
       /\ {last.ret[i] : i \in 1..Len(last.ret)} = pre.users
       /\ \A i, j \in 1..Len(last.ret) :
            i < j => last.ret[i].created_at >= last.ret[j].created_at

C17_Witness ==
  /\ last.op = "getAllUsers"
  /\ Len(last.ret) = 2
  /\ last.ret[1].created_at > last.ret[2].created_at
  /\ last.ret[1].id > last.ret[2].id

\* C18: getUserByEmail returns the present record holding the email, or null
\* when none does; it never throws NotFound.
C18_GetByEmail ==
  last.op = "getUserByEmail"
    => /\ last.thrown = NoError
       /\ IF SelectByEmail(pre, last.email) = {}
          THEN last.ret = <<>>
          ELSE /\ Len(last.ret) = 1
               /\ last.ret[1] \in pre.users
               /\ last.ret[1].email = last.email

C18_Witness ==
  /\ last.op = "getUserByEmail"
  /\ pre.users # {}
  /\ SelectByEmail(pre, last.email) = {}
  /\ last.ret = <<>>

C20_FailedCallWritesNothing ==
  (/\ last.op \in {"createUser", "updateUser", "deleteUser"}
   /\ last.thrown \in {status(404, "User not found"),
                       status(409, "Email already exists")})
    => db = pre

C20_Witness ==
  /\ last.op = "updateUser"
  /\ last.thrown.code = 409
  /\ last.name # Undefined
  /\ \E u \in Before(last.id) : u.updated_at < last.at /\ u.name # last.name

\* C25 (as claimed): in sequential execution no createUser or updateUser
\* call ends with a store fault from the email UNIQUE constraint, for every
\* input email, the empty string included.
C25_NoUniqueFaultSequential ==
  last.op \in {"createUser", "updateUser"} => last.thrown.kind # "SQLiteError"

\* C29: a successful deleteUser removes exactly the record with that id and
\* leaves every other record as it was; getAllUsers, getUserById and
\* getUserByEmail never change the store.
C29_DeleteAndReadsFrame ==
  /\ (last.op = "deleteUser" /\ last.thrown = NoError)
       => /\ Before(last.id) # {}
          /\ db.users = pre.users \ Before(last.id)
          /\ db.seq = pre.seq
  /\ last.op \in {"getAllUsers", "getUserById", "getUserByEmail"} => db = pre

C29_Witness ==
  /\ last.op = "deleteUser"
  /\ last.thrown = NoError
  /\ Others(pre, last.id) # {}
  /\ Others(db, last.id) = Others(pre, last.id)

\* the kind of an outcome: success, or the message of what was thrown
Kind(thrown) == IF thrown.kind = "none" THEN "ok" ELSE thrown.response
SameOutcome(a, b) == a.db = b.db /\ Kind(a.thrown) = Kind(b.thrown)

\* C30: from every reachable store (each one is the store of a state with no
\* call in progress) the instance-based service and the static
\* service agree on createUser, updateUser and deleteUser: the same calls
\* succeed or fail with the same kind and leave the same store; they differ
\* in getUserById, which returns null instead of throwing for an absent id.
C30_InstanceEquivalent ==
  Idle =>
    /\ \A name \in Names, email \in Emails :
         LET data == [name |-> name, email |-> email]
             a == createUser(db, now, data)
             b == iCreateUser(db, now, data)
         IN SameOutcome(a, b) /\ a.ret = b.ret
    /\ \A id \in CallIds, name \in PatchNames, email \in PatchEmails :
         LET data == [name |-> name, email |-> email]
             a == updateUser(db, now, id, data)
             b == iUpdateUser(db, now, id, data)
         IN SameOutcome(a, b) /\ a.ret = b.ret
    /\ \A id \in CallIds :
         /\ SameOutcome(deleteUser(db, id), iDeleteUser(db, id))
         /\ iGetUserById(db, id).thrown = NoError
         /\ IF SelectById(db, id) = {}
            THEN /\ iGetUserById(db, id).ret = <<>>
                 /\ getUserById(db, id).thrown = status(404, "User not found")
            ELSE iGetUserById(db, id).ret = getUserById(db, id).ret

C30_Witness ==
  /\ Idle
  /\ \E id \in CallIds, email \in Emails :
       LET data == [name |-> Undefined, email |-> email] IN
       /\ updateUser(db, now, id, data).thrown = EmailExists
       /\ iUpdateUser(db, now, id, data).thrown = Error("Email already exists")
  /\ \E name \in Names, email \in Emails :
       LET data == [name |-> name, email |-> email] IN
       /\ createUser(db, now, data).thrown = EmailExists
       /\ iCreateUser(db, now, data).thrown = Error("Email already exists")

\* C23 (as claimed): a create request whose body fails shape validation is
\* answered with status 422 without the service being called, and the store
\* is unchanged.
C23_InvalidCreateIs422 ==
  (/\ last.op = "POST /users"
   /\ ~UserModel_create([name |-> last.name, email |-> last.email]))
    => /\ http.resp.status = 422
       /\ ~http.served
       /\ db = pre

\* C24 (as claimed): a failure that is neither not-found, conflict nor a
\* validation failure is answered by the error handler with status 500 and a
\* generic message that is not the failure's own message.
C24_UnclassifiedIs500 ==
  (/\ last.op = "onError"
   /\ http.code = "UNKNOWN"
   /\ ~includes(last.thrown.response, <<"not", "found">>)
   /\ ~includes(last.thrown.response, <<"already", "exists">>))
    => /\ http.resp.status = 500
       /\ http.resp.message # last.thrown.response

\* the two processes run the given operations, to completion
Ran(p, q, opP, opQ) ==
  /\ p # q
  /\ procs[p].op = opP /\ procs[p].pc = "done"
  /\ procs[q].op = opQ /\ procs[q].pc = "done"

\* C21: when two concurrent createUser calls with the same email have both
\* passed the uniqueness pre-check, exactly one insert takes effect and the
\* other call ends with the store's unique-constraint fault, not with 409.
C21_RacingCreates ==
  \A p, q \in Procs :
    (/\ Ran(p, q, "createUser", "createUser")
     /\ procs[p].email = procs[q].email
     /\ procs[p].thrown # EmailExists
     /\ procs[q].thrown # EmailExists)
      => /\ {procs[p].thrown, procs[q].thrown} = {NoError, UniqueFault}
         /\ Cardinality(SelectByEmail(db, procs[p].email)) = 1

C21_Witness ==
  \E p, q \in Procs :
    /\ Ran(p, q, "createUser", "createUser")
    /\ procs[p].email = procs[q].email
    /\ procs[p].thrown = NoError
    /\ procs[q].thrown = UniqueFault
    /\ SelectByEmail(db, procs[p].email) = {procs[p].ret[1]}

\* C22: under every interleaving of the statements of concurrent calls, no
\* email is held by more than one record of the store.
C22_ConcurrentEmailsDistinct ==
  \A email \in Emails : Cardinality(SelectByEmail(db, email)) <= 1

C22_Witness ==
  \E p, q \in Procs :
    /\ Ran(p, q, "updateUser", "createUser")
    /\ procs[p].email = procs[q].email
    /\ Truthy(procs[p].email)
    /\ {procs[p].thrown, procs[q].thrown} = {NoError, UniqueFault}

\* C26 (as claimed): whatever a concurrent deleteUser of the same id does,
\* an updateUser call that does not fail returns a record with that id.
C26_UpdateReturnsRecord ==
  \A p, q \in Procs :
    (/\ Ran(p, q, "updateUser", "deleteUser")
     /\ procs[p].id = procs[q].id
     /\ procs[p].thrown = NoError)
      => /\ procs[p].ret # <<>>
         /\ procs[p].ret[1].id = procs[p].id

\* C27 (as claimed): of the concurrent deleteUser calls for one present id,
\* exactly one succeeds and every other one fails with 404.
C27_OneDeleteSucceeds ==
  \A p, q \in Procs :
    (/\ Ran(p, q, "deleteUser", "deleteUser")
     /\ procs[p].id = procs[q].id
     /\ SelectById(pre, procs[p].id) # {})
      => {procs[p].thrown, procs[q].thrown} = {NoError, NotFound}

\* C28: when two concurrent updateUser calls on one record supply disjoint
\* fields, one only a name and the other only a free email, and both
\* succeed, the final record carries both the name and the email.
C28_DisjointUpdatesMerge ==
  \A p, q \in Procs :
    (/\ Ran(p, q, "updateUser", "updateUser")
     /\ procs[p].id = procs[q].id
     /\ procs[p].name # Undefined /\ procs[p].email = Undefined
     /\ procs[q].name = Undefined /\ procs[q].email # Undefined
     /\ procs[p].thrown = NoError
     /\ procs[q].thrown = NoError)
      => \E u \in SelectById(db, procs[p].id) :
           u.name = procs[p].name /\ u.email = procs[q].email

C28_Witness ==
  \E p, q \in Procs :
    /\ Ran(p, q, "updateUser", "updateUser")
    /\ procs[p].id = procs[q].id
    /\ procs[p].name # Undefined /\ procs[p].email = Undefined
    /\ procs[q].name = Undefined /\ procs[q].email # Undefined
    /\ procs[p].thrown = NoError
    /\ procs[q].thrown = NoError
    /\ \E u \in SelectById(pre, procs[p].id) :
         u.name # procs[p].name /\ u.email # procs[q].email
    /\ procs[p].user = procs[q].user

====
